---- MODULE Spec2Model ----
(***************************************************************************)
(* Model of the account / quota manager (src/user_manager.py) and of the   *)
(* one-time verification code issuers (src/email_verify.py,                *)
(* src/sms_verify.py).                                                     *)
(*                                                                         *)
(* src/user_manager.py holds two definitions of class UserManager; the     *)
(* second one (lines 207-388) rebinds the name, so it is the one callers   *)
(* get and the one modelled here.                                          *)
(***************************************************************************)
EXTENDS Integers, Sequences, FiniteSets, TLC

VARIABLES
    users,      \* table users: username -> row (domain = the usernames present)
    usage,      \* table api_usage: the rows in id order
    now,        \* the wall clock, in ticks of 1/TicksPerSec second
    res,        \* the result of the latest call (what the caller saw)
    ncalls,     \* number of calls made so far
    pc,         \* per process: position inside deduct_conversation
    loc,        \* per process: the locals of its deduct_conversation call
    codes,      \* table verification_codes: identity -> row
    kind,       \* the issuer class in use: "email" or "sms"
    keycol,     \* name of the key column of table verification_codes
    issued,     \* history: per identity the times of its issuances, latest first
    live,       \* history: per identity, its latest issuance (its code, how often
                \* it was accepted) and the code of the issuance before it
    dbfail,     \* whether the storage engine currently fails the statements it is given
    conns       \* number of connections opened by finished calls and never closed

vars == <<users, usage, now, res, ncalls, pc, loc, codes, kind, keycol, issued, live,
          dbfail, conns>>

mgrVars == <<users, usage, dbfail, conns>>
procVars == <<pc, loc>>
codeVars == <<codes, kind, keycol, issued, live>>

----------------------------------------------------------------------------
(* Bounds of the model *)

MaxCalls == 4
MaxDays == 1
MaxRaceCalls == 3
MaxMinutes == 3

(* Time *)

TicksPerSec == 3
SecPerDay == 86400
TicksPerDay == SecPerDay * TicksPerSec

\* strftime('%Y-%m-%d %H:%M:%S') followed by strptime: the sub-second part is dropped
Stamp(t) == t \div TicksPerSec
\* strftime('%Y-%m-%d')
Date(t) == t \div TicksPerDay

----------------------------------------------------------------------------
(* User manager *)

Usernames == {"alice", "bob"}
Emails == {"a@x.io", "b@x.io"}
Passwords == {"pw1"}
Models == {"gpt"}
DefaultQuotaLimit == 1000
Limits == {DefaultQuotaLimit, 2}
Counts == {1, 2, 999}
Tokens == {3}

NoResult == [op |-> "none"]
PasswordGuesses == Passwords \cup {"bad"}

\* hashlib.sha256(password.encode()).hexdigest(): an unsalted digest, tagged
\* here with its scheme
hash_password(password) == <<"sha256", password>>
HashScheme(h) == h[1]

UserRow(password, email, quota_limit, is_admin, t) ==
    [password_hash |-> hash_password(password), email |-> email,
     quota_limit |-> quota_limit, quota_used |-> 0,
     last_reset_date |-> Date(t), is_admin |-> is_admin]

\* mutant: only the primary key is unique
IntegrityError_UsernameOnly(tbl, username, email) == username \in DOMAIN tbl

\* PRIMARY KEY (username), UNIQUE (email)
IntegrityError(tbl, username, email) ==
    \/ username \in DOMAIN tbl
    \/ \E u \in DOMAIN tbl : tbl[u].email = email

\* a call whose statement the storage engine fails with sqlite3.OperationalError
\* and that lets the exception out; `closed` tells whether conn.close() ran
Raises(op, arg, closed) ==
    /\ res' = [op |-> op, arg |-> arg, raised |-> TRUE]
    /\ conns' = IF closed THEN conns ELSE conns + 1
    /\ UNCHANGED <<users, usage>>

\* only IntegrityError is caught; conn.close() is in a finally clause
add_user(username, password, email, quota_limit, is_admin) ==
    /\ ncalls < MaxCalls
    /\ ncalls' = ncalls + 1
    /\ IF dbfail
       THEN Raises("add_user", username, TRUE)
       ELSE /\ IF IntegrityError(users, username, email)
               THEN /\ users' = users
                    /\ res' = [op |-> "add_user", username |-> username,
                               email |-> email, ok |-> FALSE]
               ELSE /\ users' = users @@
                          (username :> UserRow(password, email, quota_limit, is_admin, now))
                    /\ res' = [op |-> "add_user", username |-> username,
                               email |-> email, ok |-> TRUE]
            /\ UNCHANGED <<usage, conns>>
    /\ UNCHANGED <<now, dbfail, procVars, codeVars>>

\* result[0] == self.hash_password(password)
PasswordMatches(tbl, username, password) ==
    username \in DOMAIN tbl /\ tbl[username].password_hash = hash_password(password)

\* no try block: a failing statement skips conn.close()
verify_user(username, password) ==
    /\ ncalls < MaxCalls
    /\ ncalls' = ncalls + 1
    /\ IF dbfail
       THEN Raises("verify_user", username, FALSE)
       ELSE /\ res' = [op |-> "verify_user", username |-> username,
                       password |-> password,
                       ok |-> PasswordMatches(users, username, password)]
            /\ UNCHANGED <<users, usage, conns>>
    /\ UNCHANGED <<now, dbfail, procVars, codeVars>>

\* mutant: a balance equal to the limit still counts as quota left
HasQuota_AtLimit(tbl, username) ==
    username \in DOMAIN tbl /\ tbl[username].quota_used <= tbl[username].quota_limit

\* if not result: return False; return quota_used < quota_limit
HasQuota(tbl, username) ==
    username \in DOMAIN tbl /\ tbl[username].quota_used < tbl[username].quota_limit

\* no try block: a failing statement skips conn.close()
check_quota(username) ==
    /\ ncalls < MaxCalls
    /\ ncalls' = ncalls + 1
    /\ IF dbfail
       THEN Raises("check_quota", username, FALSE)
       ELSE /\ res' = [op |-> "check_quota", username |-> username,
                       ok |-> HasQuota(users, username)]
            /\ UNCHANGED <<users, usage, conns>>
    /\ UNCHANGED <<now, dbfail, procVars, codeVars>>

\* mutant: the guard tests the balance the way check_quota does, ignoring count
DeductAllowed_IgnoresCount(quota_limit, quota_used, count) == quota_used < quota_limit

\* if quota_used + count > quota_limit: refuse
DeductAllowed(quota_limit, quota_used, count) == ~ (quota_used + count > quota_limit)

\* mutant: the UPDATE has no WHERE clause
AddUsed_NoWhere(tbl, username, n) ==
    [u \in DOMAIN tbl |-> [tbl[u] EXCEPT !.quota_used = @ + n]]

\* UPDATE users SET quota_used = quota_used + ? WHERE username = ?
AddUsed(tbl, username, n) ==
    IF username \in DOMAIN tbl
    THEN [tbl EXCEPT ![username].quota_used = @ + n]
    ELSE tbl

\* every exception is caught and answered with False; conn.close() is in a
\* finally clause
deduct_conversation(username, count) ==
    /\ ncalls < MaxCalls
    /\ ncalls' = ncalls + 1
    /\ IF dbfail
       THEN /\ users' = users
            /\ res' = [op |-> "deduct_conversation", username |-> username,
                       count |-> count, ok |-> FALSE]
       ELSE IF username \notin DOMAIN users
       THEN /\ users' = users
            /\ res' = [op |-> "deduct_conversation", username |-> username,
                       count |-> count, ok |-> FALSE]
       ELSE IF ~ DeductAllowed(users[username].quota_limit,
                               users[username].quota_used, count)
       THEN /\ users' = users
            /\ res' = [op |-> "deduct_conversation", username |-> username,
                       count |-> count, ok |-> FALSE]
       ELSE /\ users' = AddUsed(users, username, count)
            /\ res' = [op |-> "deduct_conversation", username |-> username,
                       count |-> count, ok |-> TRUE]
    /\ UNCHANGED <<usage, now, dbfail, conns, procVars, codeVars>>

\* mutant: update_quota applies the cap that deduct_conversation applies
Charged_Capped(tbl, username, tokens_used) ==
    IF username \in DOMAIN tbl
          /\ tbl[username].quota_used + tokens_used <= tbl[username].quota_limit
    THEN AddUsed(tbl, username, tokens_used)
    ELSE tbl

\* update_quota's UPDATE: the same statement as deduct_conversation's, with no
\* SELECT and no test before it
Charged(tbl, username, tokens_used) == AddUsed(tbl, username, tokens_used)

\* INSERT INTO api_usage (username, timestamp, model, tokens_used); the table's
\* FOREIGN KEY clause is not enforced, the connection never issuing
\* PRAGMA foreign_keys = ON
LogUsage(log, username, t, model, tokens_used) ==
    Append(log, [username |-> username, timestamp |-> Stamp(t),
                 model |-> model, tokens_used |-> tokens_used])

\* the step of update_quota at which a failing storage engine raises
FailPoints(failing) == IF failing THEN {"update", "insert", "commit"} ELSE {"none"}

\* the tables update_quota leaves behind. The UPDATE and the INSERT run in the
\* transaction the sqlite3 module opens before the first of them; only
\* conn.commit() makes them durable, and conn.close() in the finally clause
\* drops whatever was not committed.
update_quota_result(tbl, log, username, tokens_used, model, t, fail) ==
    LET afterUpdate == IF fail = "update"
                       THEN tbl
                       ELSE Charged(tbl, username, tokens_used)
        afterInsert == IF fail \in {"update", "insert"}
                       THEN log
                       ELSE LogUsage(log, username, t, model, tokens_used)
        committed   == fail = "none"
    IN  [users |-> IF committed THEN afterUpdate ELSE tbl,
         usage |-> IF committed THEN afterInsert ELSE log]

\* every exception is caught and logged; conn.close() is in a finally clause
update_quota(username, tokens_used, model) ==
    /\ ncalls < MaxCalls
    /\ ncalls' = ncalls + 1
    /\ \E fail \in FailPoints(dbfail) :
          LET r == update_quota_result(users, usage, username, tokens_used, model,
                                       now, fail)
          IN  /\ users' = r.users
              /\ usage' = r.usage
              /\ res' = [op |-> "update_quota", username |-> username,
                         tokens_used |-> tokens_used, model |-> model,
                         failed |-> fail]
    /\ UNCHANGED <<now, dbfail, conns, procVars, codeVars>>

\* mutant: the reset forgets to stamp the date
ResetRow_NoDate(tbl, username, t) ==
    IF username \in DOMAIN tbl
    THEN [tbl EXCEPT ![username].quota_used = 0]
    ELSE tbl

\* UPDATE users SET quota_used = 0, last_reset_date = ? WHERE username = ?
ResetRow(tbl, username, t) ==
    IF username \in DOMAIN tbl
    THEN [tbl EXCEPT ![username].quota_used = 0,
                     ![username].last_reset_date = Date(t)]
    ELSE tbl

\* try/finally without except: a failing statement raises after conn.close()
reset_quota(username) ==
    /\ ncalls < MaxCalls
    /\ ncalls' = ncalls + 1
    /\ IF dbfail
       THEN Raises("reset_quota", username, TRUE)
       ELSE /\ users' = ResetRow(users, username, now)
            /\ res' = [op |-> "reset_quota", username |-> username]
            /\ UNCHANGED <<usage, conns>>
    /\ UNCHANGED <<now, dbfail, procVars, codeVars>>

\* no try block: a failing statement skips conn.close()
get_user_info(username) ==
    /\ ncalls < MaxCalls
    /\ ncalls' = ncalls + 1
    /\ IF dbfail
       THEN Raises("get_user_info", username, FALSE)
       ELSE /\ res' = [op |-> "get_user_info", username |-> username,
                       info |-> IF username \in DOMAIN users
                                THEN [quota_limit |-> users[username].quota_limit,
                                      quota_used |-> users[username].quota_used,
                                      last_reset_date |-> users[username].last_reset_date,
                                      is_admin |-> users[username].is_admin]
                                ELSE [none |-> TRUE]]
            /\ UNCHANGED <<users, usage, conns>>
    /\ UNCHANGED <<now, dbfail, procVars, codeVars>>

\* no try block: a failing statement skips conn.close()
is_admin(username) ==
    /\ ncalls < MaxCalls
    /\ ncalls' = ncalls + 1
    /\ IF dbfail
       THEN Raises("is_admin", username, FALSE)
       ELSE /\ res' = [op |-> "is_admin", username |-> username,
                       ok |-> username \in DOMAIN users /\ users[username].is_admin]
            /\ UNCHANGED <<users, usage, conns>>
    /\ UNCHANGED <<now, dbfail, procVars, codeVars>>

\* no try block: a failing statement skips conn.close()
get_user_by_email(email) ==
    /\ ncalls < MaxCalls
    /\ ncalls' = ncalls + 1
    /\ IF dbfail
       THEN Raises("get_user_by_email", email, FALSE)
       ELSE /\ res' = [op |-> "get_user_by_email", email |-> email,
                       username |-> IF \E u \in DOMAIN users : users[u].email = email
                                    THEN CHOOSE u \in DOMAIN users : users[u].email = email
                                    ELSE "None"]
            /\ UNCHANGED <<users, usage, conns>>
    /\ UNCHANGED <<now, dbfail, procVars, codeVars>>

\* the storage engine starts or stops failing statements (a locked or
\* unreadable database file)
StorageFault ==
    /\ dbfail' = ~ dbfail
    /\ UNCHANGED <<users, usage, conns, now, res, ncalls, procVars, codeVars>>

NextDay ==
    /\ Date(now) < MaxDays
    /\ now' = now + TicksPerDay
    /\ UNCHANGED <<mgrVars, res, ncalls, procVars, codeVars>>

----------------------------------------------------------------------------
(* Verification code issuers: EmailVerification and SMSVerification. The   *)
(* two classes run the same statements on table verification_codes; they   *)
(* differ in the name of the key column and in how the channel fails.      *)

CooldownSec == 60
ExpiryMinutes == 15
WindowHours == 24
MaxAttempts == 5

CooldownTicks == CooldownSec * TicksPerSec
ExpiryTicks == ExpiryMinutes * 60 * TicksPerSec
WindowTicks == WindowHours * 3600 * TicksPerSec

Kinds == {"email", "sms"}
KeyColumn(k) == IF k = "email" THEN "email" ELSE "phone"
IdentitiesOf(k) == IF k = "email" THEN {"a@x.io"} ELSE {"13800000000"}
Identities == IdentitiesOf(kind)

\* generate_code: six random digits
Codes == {"111111", "222222"}

\* outcomes of the outbound channel: delivered, an exception, and (SMS only) a
\* response whose code is not "OK"
Channels(k) == IF k = "email" THEN {"ok", "exception"} ELSE {"ok", "exception", "not_ok"}

\* every statement names the issuer's own key column; on a table created with
\* the other issuer's column the statement raises sqlite3.OperationalError
SchemaError == keycol # KeyColumn(kind)

\* (t - datetime.strptime(stamp)).total_seconds(), in ticks
Elapsed(t, stamp) == t - stamp * TicksPerSec

InCooldown(row, t) == Elapsed(t, row.last_attempt_time) < CooldownTicks

RateLimited(row, t) ==
    row.attempts >= MaxAttempts /\ Elapsed(t, row.created_time) < WindowTicks

\* mutant: the counter is not reset once the window has passed
CarriedAttempts_NoReset(row) == row.attempts

\* the value of the local `attempts` when the INSERT is reached
CarriedAttempts(row) == IF row.attempts >= MaxAttempts THEN 0 ELSE row.attempts

\* mutant: the row is written before the message is handed to the channel
Persisted_Always(chan) == TRUE

\* whether the INSERT OR REPLACE is reached
Persisted(chan) == chan = "ok"

\* mutant: a reissue refreshes the times and the counter of the row but keeps
\* the code stored first
Upsert_KeepsCode(tbl, id, code, t) ==
    LET row == [code |-> IF id \in DOMAIN tbl THEN tbl[id].code ELSE code,
                created_time |-> Stamp(t),
                attempts |-> IF id \in DOMAIN tbl
                             THEN (IF tbl[id].attempts >= MaxAttempts
                                   THEN 0 ELSE tbl[id].attempts) + 1
                             ELSE 1,
                last_attempt_time |-> Stamp(t)]
    IN  [i \in DOMAIN tbl \cup {id} |-> IF i = id THEN row ELSE tbl[i]]

\* INSERT OR REPLACE INTO verification_codes VALUES (id, code, now, attempts, now)
Upsert(tbl, id, code, t) ==
    LET row == [code |-> code, created_time |-> Stamp(t),
                attempts |-> IF id \in DOMAIN tbl THEN CarriedAttempts(tbl[id]) + 1 ELSE 1,
                last_attempt_time |-> Stamp(t)]
    IN  [i \in DOMAIN tbl \cup {id} |-> IF i = id THEN row ELSE tbl[i]]

\* send_code as a function of the table, its arguments, the generated code, the
\* channel's outcome and the clock: the result returned and the table left
send_result(tbl, id, code, chan, t) ==
    IF SchemaError
    THEN [ok |-> FALSE, msg |-> "send_failed", codes |-> tbl]
    ELSE IF id \in DOMAIN tbl /\ InCooldown(tbl[id], t)
    THEN [ok |-> FALSE, msg |-> "cooldown", codes |-> tbl]
    ELSE IF id \in DOMAIN tbl /\ RateLimited(tbl[id], t)
    THEN [ok |-> FALSE, msg |-> "rate_limit", codes |-> tbl]
    ELSE IF Persisted(chan)
    THEN [ok |-> TRUE, msg |-> "sent", codes |-> Upsert(tbl, id, code, t)]
    ELSE [ok |-> FALSE, msg |-> "send_failed", codes |-> tbl]

\* mutant: a code is refused from exactly 15 minutes on
Expired_AtBoundary(row, t) == Elapsed(t, row.created_time) >= ExpiryTicks

\* if (datetime.now() - created_time).total_seconds() > 15 * 60
Expired(row, t) == Elapsed(t, row.created_time) > ExpiryTicks

\* mutant: the row is kept after a successful verification
DeleteRow_Keeps(tbl, id) == tbl

\* DELETE FROM verification_codes WHERE key = ?
DeleteRow(tbl, id) == [i \in DOMAIN tbl \ {id} |-> tbl[i]]

\* mutant: a row found expired is removed on the way out
verify_result_PurgesExpired(tbl, id, code, t) ==
    IF SchemaError
    THEN [ok |-> FALSE, msg |-> "verify_failed", codes |-> tbl]
    ELSE IF id \notin DOMAIN tbl
    THEN [ok |-> FALSE, msg |-> "not_found", codes |-> tbl]
    ELSE IF Expired(tbl[id], t)
    THEN [ok |-> FALSE, msg |-> "expired", codes |-> DeleteRow(tbl, id)]
    ELSE IF code # tbl[id].code
    THEN [ok |-> FALSE, msg |-> "mismatch", codes |-> tbl]
    ELSE [ok |-> TRUE, msg |-> "verified", codes |-> DeleteRow(tbl, id)]

\* verify_code as a function of the table, its arguments and the clock
verify_result(tbl, id, code, t) ==
    IF SchemaError
    THEN [ok |-> FALSE, msg |-> "verify_failed", codes |-> tbl]
    ELSE IF id \notin DOMAIN tbl
    THEN [ok |-> FALSE, msg |-> "not_found", codes |-> tbl]
    ELSE IF Expired(tbl[id], t)
    THEN [ok |-> FALSE, msg |-> "expired", codes |-> tbl]
    ELSE IF code # tbl[id].code
    THEN [ok |-> FALSE, msg |-> "mismatch", codes |-> tbl]
    ELSE [ok |-> TRUE, msg |-> "verified", codes |-> DeleteRow(tbl, id)]

\* history: the times of the latest issuances to id, latest first
Remember(h, id, t) ==
    LET old == IF id \in DOMAIN h THEN h[id] ELSE <<>>
        new == <<t>> \o old
        cut == IF Len(new) > MaxAttempts + 1 THEN SubSeq(new, 1, MaxAttempts + 1) ELSE new
    IN  [i \in DOMAIN h \cup {id} |-> IF i = id THEN cut ELSE h[i]]

send_code(id, code, chan) ==
    LET r == send_result(codes, id, code, chan, now)
    IN  /\ codes' = r.codes
        /\ res' = [op |-> "send_code", id |-> id, chan |-> chan,
                   ok |-> r.ok, msg |-> r.msg,
                   found |-> IF id \in DOMAIN codes THEN codes[id].attempts ELSE 0]
        /\ IF r.ok
           THEN /\ issued' = Remember(issued, id, now)
                /\ live' = [i \in DOMAIN live \cup {id} |->
                              IF i = id
                              THEN [code |-> code, accepted |-> 0,
                                    prev |-> IF id \in DOMAIN live
                                             THEN live[id].code ELSE "none"]
                              ELSE live[i]]
           ELSE UNCHANGED <<issued, live>>
        /\ UNCHANGED <<mgrVars, now, ncalls, procVars, kind, keycol>>

verify_code(id, code) ==
    LET r == verify_result(codes, id, code, now)
    IN  /\ codes' = r.codes
        /\ res' = [op |-> "verify_code", id |-> id, code |-> code,
                   ok |-> r.ok, msg |-> r.msg]
        /\ IF r.ok /\ id \in DOMAIN live
           THEN live' = [live EXCEPT ![id].accepted = @ + 1]
           ELSE live' = live
        /\ UNCHANGED <<mgrVars, now, ncalls, procVars, kind, keycol, issued>>

\* Format validation. An identity is a Python str; Text gives its characters.
Text(id) ==
    CASE id = "a@x.io"      -> <<"a", "@", "x", ".", "i", "o">>
      [] id = "a.x.io"      -> <<"a", ".", "x", ".", "i", "o">>
      [] id = "13800000000" -> <<"1", "3", "8", "0", "0", "0", "0", "0", "0", "0", "0">>
      [] id = "12800000000" -> <<"1", "2", "8", "0", "0", "0", "0", "0", "0", "0", "0">>
      [] OTHER              -> <<>>

Letters ==
    {"a", "b", "c", "d", "e", "f", "g", "h", "i", "j", "k", "l", "m",
     "n", "o", "p", "q", "r", "s", "t", "u", "v", "w", "x", "y", "z",
     "A", "B", "C", "D", "E", "F", "G", "H", "I", "J", "K", "L", "M",
     "N", "O", "P", "Q", "R", "S", "T", "U", "V", "W", "X", "Y", "Z"}
Digits == {"0", "1", "2", "3", "4", "5", "6", "7", "8", "9"}

AllIn(s, a, b, S) == \A i \in a..b : s[i] \in S

\* ^[a-zA-Z0-9._%+-]+@[a-zA-Z0-9.-]+\.[a-zA-Z]{2,}$
is_valid_email(id) ==
    LET s == Text(id)
        n == Len(s)
    IN  \E i \in 2..n, j \in 4..n :
            /\ s[i] = "@" /\ s[j] = "." /\ i + 1 < j /\ j + 2 <= n
            /\ AllIn(s, 1, i - 1, Letters \cup Digits \cup {".", "_", "%", "+", "-"})
            /\ AllIn(s, i + 1, j - 1, Letters \cup Digits \cup {".", "-"})
            /\ AllIn(s, j + 1, n, Letters)

\* ^1[3-9]\d{9}$
is_valid_phone(id) ==
    LET s == Text(id)
    IN  /\ Len(s) = 11
        /\ s[1] = "1"
        /\ s[2] \in Digits \ {"0", "1", "2"}
        /\ AllIn(s, 3, 11, Digits)

IsValidIdentity(k, id) == IF k = "email" THEN is_valid_email(id) ELSE is_valid_phone(id)

\* identities a caller may pass that are no email address / no phone number
MalformedOf(k) == IF k = "email" THEN {"a.x.io"} ELSE {"12800000000"}

\* the instants at which SpecCode reads the clock: around the cooldown and the
\* expiry of a code issued in the first second, off the whole second too
NearInstants ==
    {0, TicksPerSec - 1, CooldownTicks, ExpiryTicks, ExpiryTicks + 1}

\* the instants at which SpecWindow reads the clock: the first minutes of
\* three consecutive days
FarInstants ==
    {k * CooldownTicks : k \in 0..MaxMinutes}
        \cup {WindowTicks, WindowTicks + CooldownTicks, 2 * WindowTicks}

Advance(t) ==
    /\ t > now
    /\ now' = t
    /\ UNCHANGED <<mgrVars, res, ncalls, procVars, codeVars>>

----------------------------------------------------------------------------
(* Idle values of the parts a specification does not use *)

Procs == {"p1", "p2"}

IdleProcs == pc = [p \in Procs |-> "idle"] /\ loc = [p \in Procs |-> NoResult]
IdleCodes ==
    /\ codes = <<>>
    /\ kind = "email"
    /\ keycol = "email"
    /\ issued = <<>>
    /\ live = <<>>
IdleMgr == users = <<>> /\ usage = <<>> /\ dbfail = FALSE /\ conns = 0

----------------------------------------------------------------------------
(* Spec: the user manager on a fresh database, one call at a time *)

Init ==
    /\ IdleMgr
    /\ now = 0
    /\ res = NoResult
    /\ ncalls = 0
    /\ IdleProcs
    /\ IdleCodes

Next ==
    \/ \E u \in Usernames, p \in Passwords, e \in Emails, l \in Limits, a \in BOOLEAN :
           add_user(u, p, e, l, a)
    \/ \E u \in Usernames, n \in Counts : deduct_conversation(u, n)
    \/ \E u \in Usernames, n \in Tokens, m \in Models : update_quota(u, n, m)
    \/ \E u \in Usernames : reset_quota(u)
    \/ NextDay

Spec == Init /\ [][Next]_vars

\* the calls that only read the users table
ReadCalls ==
    \/ \E u \in Usernames, p \in PasswordGuesses : verify_user(u, p)
    \/ \E u \in Usernames : check_quota(u)
    \/ \E u \in Usernames : get_user_info(u)
    \/ \E u \in Usernames : is_admin(u)
    \/ \E e \in Emails : get_user_by_email(e)

----------------------------------------------------------------------------
(* SpecFault: every call of the user manager, on a database whose           *)
(* statements may fail                                                      *)

NextFault == Next \/ ReadCalls \/ StorageFault

SpecFault == Init /\ [][NextFault]_vars

----------------------------------------------------------------------------
(* SpecDeduct: an existing database whose balances are within their limits, *)
(* and deduct_conversation calls only, one at a time                        *)

EmailOf(u) == IF u = "alice" THEN "a@x.io" ELSE "b@x.io"

InitQuota == {<<DefaultQuotaLimit, 999>>, <<DefaultQuotaLimit, 0>>, <<2, 1>>, <<0, 0>>}

ExistingRow(u, q) ==
    [password_hash |-> hash_password("pw1"), email |-> EmailOf(u),
     quota_limit |-> q[1], quota_used |-> q[2],
     last_reset_date |-> 0, is_admin |-> FALSE]

ExistingUsers ==
    UNION {{[u \in S |-> ExistingRow(u, f[u])] : f \in [S -> InitQuota]} :
           S \in SUBSET Usernames}

InitDeduct ==
    /\ users \in ExistingUsers
    /\ usage = <<>>
    /\ dbfail = FALSE
    /\ conns = 0
    /\ now = 0
    /\ res = NoResult
    /\ ncalls = 0
    /\ IdleProcs
    /\ IdleCodes

NextDeduct == \E u \in Usernames, n \in Counts : deduct_conversation(u, n)

SpecDeduct == InitDeduct /\ [][NextDeduct]_vars

----------------------------------------------------------------------------
(* SpecRead: the reading calls on a database that already holds users,      *)
(* between calls that register users and charge tokens                      *)

NextRead ==
    \/ ReadCalls
    \/ \E u \in Usernames, p \in Passwords, e \in Emails :
           add_user(u, p, e, DefaultQuotaLimit, FALSE)
    \/ \E u \in Usernames, n \in Tokens, m \in Models : update_quota(u, n, m)

SpecRead == InitDeduct /\ [][NextRead]_vars

----------------------------------------------------------------------------
(* SpecRace: deduct_conversation calls of several processes on one          *)
(* database. Each process has its own connection; the SELECT and the        *)
(* UPDATE..commit are separate statements, so other processes' statements   *)
(* may run between them.                                                    *)

\* lines 298-307: the SELECT and the two early returns
DeductSelect(p, username, count) ==
    /\ pc[p] = "idle"
    /\ ncalls < MaxRaceCalls
    /\ ncalls' = ncalls + 1
    /\ IF username \in DOMAIN users
          /\ DeductAllowed(users[username].quota_limit,
                           users[username].quota_used, count)
       THEN /\ pc' = [pc EXCEPT ![p] = "update"]
            /\ loc' = [loc EXCEPT ![p] =
                         [op |-> "deduct_conversation", username |-> username,
                          count |-> count,
                          quota_limit |-> users[username].quota_limit,
                          quota_used |-> users[username].quota_used]]
            /\ res' = res
       ELSE /\ res' = [op |-> "deduct_conversation", username |-> username,
                       count |-> count, ok |-> FALSE, proc |-> p]
            /\ UNCHANGED <<pc, loc>>
    /\ UNCHANGED <<users, usage, dbfail, conns, now, codeVars>>

\* lines 310-316: the UPDATE, the commit and the successful return
DeductUpdate(p) ==
    /\ pc[p] = "update"
    /\ users' = AddUsed(users, loc[p].username, loc[p].count)
    /\ res' = [op |-> "deduct_conversation", username |-> loc[p].username,
               count |-> loc[p].count, ok |-> TRUE, proc |-> p]
    /\ pc' = [pc EXCEPT ![p] = "idle"]
    /\ loc' = [loc EXCEPT ![p] = NoResult]
    /\ UNCHANGED <<usage, dbfail, conns, now, ncalls, codeVars>>

NextRace ==
    \/ \E p \in Procs, u \in Usernames, n \in Counts : DeductSelect(p, u, n)
    \/ \E p \in Procs : DeductUpdate(p)

SpecRace == InitDeduct /\ [][NextRace]_vars

----------------------------------------------------------------------------
(* Claims about deduct_conversation *)

WithinLimit == \A u \in DOMAIN users : users[u].quota_used <= users[u].quota_limit

IsDeduct(r) == r.op = "deduct_conversation"

\* C1: starting from balances with quota_used <= quota_limit, after any
\* sequence of deduct_conversation calls with positive counts, run one at a
\* time, quota_used <= quota_limit for every user.
C1_DeductNeverExceedsLimit == WithinLimit

\* a call asking for more than the positive remaining balance was refused
C1_Witness ==
    /\ IsDeduct(res) /\ ~ res.ok /\ ncalls >= 2
    /\ res.username \in DOMAIN users
    /\ users[res.username].quota_used < users[res.username].quota_limit
    /\ users[res.username].quota_used + res.count > users[res.username].quota_limit

\* C2: with concurrent deduct_conversation calls, every increment is applied
\* only while quota_used + count <= quota_limit holds at that moment, and
\* quota_used never exceeds quota_limit.
C2_AtomicCheckAndIncrement ==
    [][\A p \in Procs :
         (pc[p] = "update" /\ pc'[p] = "idle") =>
            /\ users[loc[p].username].quota_used + loc[p].count
                   <= users[loc[p].username].quota_limit
            /\ users'[loc[p].username].quota_used
                   <= users'[loc[p].username].quota_limit]_vars

\* C3: deduct_conversation(username, count) fails and changes no table when
\* the user is unknown or quota_used + count > quota_limit; otherwise it
\* succeeds and that user's quota_used grows by exactly count, nothing else
\* changing.
C3_DeductContract ==
    [][(ncalls' = ncalls + 1 /\ IsDeduct(res')) =>
         LET u == res'.username
             n == res'.count
         IN  IF u \notin DOMAIN users
                \/ users[u].quota_used + n > users[u].quota_limit
             THEN ~ res'.ok /\ users' = users /\ usage' = usage
             ELSE /\ res'.ok
                  /\ usage' = usage
                  /\ DOMAIN users' = DOMAIN users
                  /\ users'[u] = [users[u] EXCEPT !.quota_used = @ + n]
                  /\ \A v \in DOMAIN users \ {u} : users'[v] = users[v]]_vars

\* the example: limit 1000, used 999, count 1 succeeded and used is now 1000,
\* another user's row being present
C3_Witness ==
    /\ IsDeduct(res) /\ res.ok /\ res.count = 1
    /\ res.username \in DOMAIN users
    /\ users[res.username].quota_limit = 1000
    /\ users[res.username].quota_used = 1000
    /\ DOMAIN users = Usernames

----------------------------------------------------------------------------
(* SpecCode: one issuer on its database. The table verification_codes was  *)
(* created by the first issuer constructed on that database (CREATE TABLE   *)
(* IF NOT EXISTS), which need not be this one.                              *)

InitCode ==
    /\ IdleMgr
    /\ now = 0
    /\ res = NoResult
    /\ ncalls = 0
    /\ IdleProcs
    /\ codes = <<>>
    /\ kind \in Kinds
    /\ keycol \in {KeyColumn(k) : k \in Kinds}
    /\ issued = <<>>
    /\ live = <<>>

NextCode ==
    \/ \E id \in Identities, c \in Codes, ch \in Channels(kind) : send_code(id, c, ch)
    \/ \E id \in Identities, c \in Codes : verify_code(id, c)
    \/ \E t \in NearInstants : Advance(t)

SpecCode == InitCode /\ [][NextCode]_vars

----------------------------------------------------------------------------
(* SpecWindow: one issuer on its own table, over three days *)

InitWindow ==
    /\ IdleMgr
    /\ now = 0
    /\ res = NoResult
    /\ ncalls = 0
    /\ IdleProcs
    /\ codes = <<>>
    /\ kind \in Kinds
    /\ keycol = KeyColumn(kind)
    /\ issued = <<>>
    /\ live = <<>>

NextWindow ==
    \/ \E id \in Identities, ch \in Channels(kind) : send_code(id, "111111", ch)
    \/ \E id \in Identities, c \in Codes : verify_code(id, c)
    \/ \E t \in FarInstants : Advance(t)

SpecWindow == InitWindow /\ [][NextWindow]_vars

----------------------------------------------------------------------------
(* SpecFormat: one issuer on its own table, called with well-formed and    *)
(* with malformed identities                                               *)

NextFormat ==
    \/ \E id \in IdentitiesOf(kind) \cup MalformedOf(kind), ch \in Channels(kind) :
           send_code(id, "111111", ch)
    \/ \E id \in IdentitiesOf(kind) \cup MalformedOf(kind), c \in Codes :
           verify_code(id, c)
    \/ Advance(CooldownTicks)

SpecFormat == InitWindow /\ [][NextFormat]_vars

----------------------------------------------------------------------------
(* Claims about the verification codes *)

IsSend(r) == r.op = "send_code"
IsVerify(r) == r.op = "verify_code"
HasIssue(id) == id \in DOMAIN issued
LastIssue(id) == Head(issued[id])
Accepts(id, c) == verify_result(codes, id, c, now).ok

\* C4 (as stated): verify_code(identity, code) is accepted if and only if
\* code is the most recently issued value for the identity and the call is
\* made within 15 minutes of that issuance.
C4_AcceptedIffLatestWithin15Min ==
    \A id \in Identities, c \in Codes :
        Accepts(id, c) <=>
            /\ HasIssue(id)
            /\ c = live[id].code
            /\ now - LastIssue(id) <= ExpiryTicks

\* C4 (amended): verify_code(identity, code) is accepted if and only if code
\* is the most recently issued value for the identity, no earlier verify_code
\* has accepted that issuance, and the call is made no later than 15 minutes
\* after the issuance time rounded down to the whole second.
C4_AcceptedIffUnusedLatestWithin15Min ==
    \A id \in Identities, c \in Codes :
        Accepts(id, c) <=>
            /\ HasIssue(id)
            /\ c = live[id].code
            /\ live[id].accepted = 0
            /\ now - Stamp(LastIssue(id)) * TicksPerSec <= ExpiryTicks

\* a code issued off the whole second was accepted at the end of its 15 minutes
C4_Witness ==
    /\ IsVerify(res) /\ res.ok
    /\ HasIssue(res.id)
    /\ LastIssue(res.id) = TicksPerSec - 1
    /\ now = ExpiryTicks

\* C5: a successful verify_code deletes the identity's row, so until the next
\* send_code a verify_code with the same code fails with not-found; no
\* issuance is accepted twice.
C5_SingleUse ==
    \A id \in DOMAIN live :
        /\ live[id].accepted <= 1
        /\ live[id].accepted = 1 =>
              /\ id \notin DOMAIN codes
              /\ verify_result(codes, id, live[id].code, now).msg = "not_found"

\* the accepted code was presented again and refused with not-found
C5_Witness ==
    /\ IsVerify(res) /\ res.msg = "not_found"
    /\ res.id \in DOMAIN live
    /\ live[res.id].accepted = 1
    /\ res.code = live[res.id].code

\* C6: less than 60 seconds after a successful send_code every send_code for
\* the same identity is refused with the cooldown error, so two issuances to
\* one identity are never less than 60 seconds apart.
C6_CooldownBetweenIssues ==
    \A id \in DOMAIN issued :
        /\ now - LastIssue(id) < CooldownTicks =>
              \A c \in Codes, ch \in Channels(kind) :
                  send_result(codes, id, c, ch, now).msg = "cooldown"
        /\ Len(issued[id]) >= 2 => issued[id][1] - issued[id][2] >= CooldownTicks

\* C7: after 5 issuances to an identity within 24 hours a further send_code
\* inside that window is refused, so no identity gets more than 5 issuances
\* in any 24-hour window.
C7_AtMostFivePerWindow ==
    \A id \in DOMAIN issued :
        /\ (Len(issued[id]) >= MaxAttempts
             /\ now - issued[id][MaxAttempts] < WindowTicks) =>
              \A c \in Codes, ch \in Channels(kind) :
                  ~ send_result(codes, id, c, ch, now).ok
        /\ Len(issued[id]) > MaxAttempts =>
              issued[id][1] - issued[id][MaxAttempts + 1] >= WindowTicks

\* the issuances to id in the 24 hours before now
IssuedInWindow(id) ==
    IF HasIssue(id)
    THEN {i \in 1..Len(issued[id]) : now - issued[id][i] < WindowTicks}
    ELSE {}

\* C8: send_code answers with the rate-limit error only when the identity has
\* 5 issuances in the preceding 24 hours.
C8_RateLimitOnlyWithFiveInWindow ==
    \A id \in Identities :
        (\E c \in Codes, ch \in Channels(kind) :
             send_result(codes, id, c, ch, now).msg = "rate_limit")
            => Cardinality(IssuedInWindow(id)) >= MaxAttempts

C10_ChannelFailureKeepsRow ==
    \A id \in Identities, c \in Codes, ch \in Channels(kind) \ {"ok"} :
        LET r == send_result(codes, id, c, ch, now)
        IN  ~ r.ok /\ r.codes = codes

\* the channel failed on a reissue that had passed the cooldown and the cap
C10_Witness ==
    /\ IsSend(res) /\ ~ res.ok /\ res.msg = "send_failed" /\ res.chan # "ok"
    /\ ~ SchemaError
    /\ res.id \in DOMAIN codes
    /\ codes[res.id].attempts = res.found

\* C11 (as stated): the table holds one row per identity, the latest issuance,
\* and after a successful reissue the code issued before is rejected by
\* verify_code from then on.
C11_ReissueRetiresOldCode ==
    \A id \in DOMAIN codes, c \in Codes :
        LET r == send_result(codes, id, c, "ok", now)
        IN  r.ok =>
              /\ DOMAIN r.codes = DOMAIN codes
              /\ r.codes[id].code = c
              /\ \A t \in NearInstants :
                    t >= now => ~ verify_result(r.codes, id, codes[id].code, t).ok

\* C11 (amended): the table holds one row per identity, the latest issuance,
\* and after a successful reissue the code issued before is rejected by
\* verify_code from then on, unless the reissue drew the same six digits.
C11_ReissueRetiresDifferentOldCode ==
    \A id \in DOMAIN codes, c \in Codes :
        LET r == send_result(codes, id, c, "ok", now)
        IN  r.ok =>
              /\ DOMAIN r.codes = DOMAIN codes
              /\ r.codes[id].code = c
              /\ c # codes[id].code =>
                    \A t \in NearInstants :
                        t >= now => ~ verify_result(r.codes, id, codes[id].code, t).ok

\* after a reissue the code issued before was presented inside its own 15
\* minutes and refused
C11_Witness ==
    /\ IsVerify(res) /\ ~ res.ok /\ res.msg = "mismatch"
    /\ res.id \in DOMAIN live
    /\ live[res.id].prev = res.code
    /\ Len(issued[res.id]) >= 2
    /\ now - issued[res.id][2] <= ExpiryTicks

\* C12: send_code issues codes only to identities that pass format
\* validation; for a malformed identity no message is sent and no row stored.
C12_OnlyValidIdentitiesIssued ==
    \A id \in DOMAIN codes \cup DOMAIN issued : IsValidIdentity(kind, id)

----------------------------------------------------------------------------
(* The user manager: credentials, registration, usage log, quota *)

IsCall(op) == ncalls' = ncalls + 1 /\ res'.op = op

\* the schemes a stored hash can be in: the unsalted digest, and the salted
\* adaptive scheme the module also implements
LegacyScheme == "sha256"
StrongScheme == "bcrypt"

\* C13: for a user whose stored hash is in the legacy weak format,
\* verify_user(username, password) returns true when password is correct and
\* afterwards the stored hash is in the stronger format; it returns false and
\* leaves the users table unchanged when password is wrong.
C13_VerifyUpgradesLegacyHash ==
    [][(/\ IsCall("verify_user")
        /\ res'.username \in DOMAIN users
        /\ HashScheme(users[res'.username].password_hash) = LegacyScheme)
       => IF users[res'.username].password_hash = hash_password(res'.password)
          THEN /\ res'.ok
               /\ HashScheme(users'[res'.username].password_hash) = StrongScheme
          ELSE ~ res'.ok /\ users' = users]_vars

\* no two accounts share an email (a username names one row by construction)
UniqueAccounts(tbl) ==
    \A u, v \in DOMAIN tbl : u # v => tbl[u].email # tbl[v].email

EmailTaken(tbl, email) == \E u \in DOMAIN tbl : tbl[u].email = email

\* C14: add_user returns false and leaves the user table unchanged when the
\* username or the email is already used by an existing account; otherwise it
\* inserts the account with quota_used = 0 and returns true. After any sequence
\* of add_user calls no two accounts share a username or an email.
C14_AddUserKeepsAccountsUnique ==
    [][/\ IsCall("add_user") =>
            IF res'.username \in DOMAIN users \/ EmailTaken(users, res'.email)
            THEN ~ res'.ok /\ users' = users
            ELSE /\ res'.ok
                 /\ DOMAIN users' = DOMAIN users \cup {res'.username}
                 /\ \A u \in DOMAIN users : users'[u] = users[u]
                 /\ users'[res'.username].email = res'.email
                 /\ users'[res'.username].quota_used = 0
       /\ UniqueAccounts(users')]_vars

\* a registration under a fresh username was refused for its email alone
C14_Witness ==
    /\ res.op = "add_user"
    /\ ~ res.ok
    /\ res.username \notin DOMAIN users
    /\ EmailTaken(users, res.email)

\* C15: update_quota(username, tokens_used, model) on an existing user
\* increases quota_used by exactly tokens_used whatever the current balance (no
\* cap check, so quota_used may exceed quota_limit) and appends exactly one
\* usage record (username, timestamp, model, tokens_used); it never refuses for
\* lack of quota.
C15_UpdateQuotaUnconditional ==
    [][(IsCall("update_quota") /\ res'.username \in DOMAIN users) =>
          /\ users' = [users EXCEPT ![res'.username].quota_used = @ + res'.tokens_used]
          /\ usage' = usage \o <<[username |-> res'.username, timestamp |-> Stamp(now),
                                   model |-> res'.model,
                                   tokens_used |-> res'.tokens_used]>>]_vars

\* update_quota has charged a user beyond the limit and logged it
C15_Witness ==
    /\ res.op = "update_quota"
    /\ res.username \in DOMAIN users
    /\ users[res.username].quota_used > users[res.username].quota_limit
    /\ usage # <<>>
    /\ usage[Len(usage)].username = res.username

\* C16: the usage log is append-only and foreign-keyed to the user table: after
\* any sequence of public operations every usage record names a username that
\* exists in the user table (including when update_quota is called with an
\* unknown username), and no operation removes or changes an existing record.
C16_UsageLogAppendOnlyForeignKeyed ==
    [][/\ Len(usage') >= Len(usage)
       /\ SubSeq(usage', 1, Len(usage)) = usage
       /\ \A i \in DOMAIN usage' : usage'[i].username \in DOMAIN users']_vars

\* C17: reset_quota(username) sets quota_used to 0 and last_reset_date to the
\* current date for that user and changes nothing else; no other operation
\* lowers quota_used or restamps the date on its own, so the deduct_conversation
\* that follows a reset succeeds exactly when count <= quota_limit.
C17_ResetQuotaFrame ==
    [][/\ (IsCall("reset_quota") /\ res'.username \in DOMAIN users) =>
            /\ users' = [users EXCEPT ![res'.username].quota_used = 0,
                                      ![res'.username].last_reset_date = Date(now)]
            /\ usage' = usage
       /\ (IsCall("reset_quota") /\ res'.username \notin DOMAIN users) =>
            UNCHANGED <<users, usage>>
       /\ ~ IsCall("reset_quota") =>
            \A u \in DOMAIN users :
                /\ u \in DOMAIN users'
                /\ users'[u].quota_used >= users[u].quota_used
                /\ users'[u].last_reset_date = users[u].last_reset_date
       /\ (/\ IsCall("deduct_conversation")
           /\ res.op = "reset_quota"
           /\ res.username = res'.username
           /\ res'.username \in DOMAIN users) =>
            (res'.ok <=> res'.count <= users[res'.username].quota_limit)]_vars

\* a user who had been charged more than the limit was reset on a later day
\* and then granted a deduction of exactly the limit
C17_Witness ==
    /\ res.op = "deduct_conversation"
    /\ res.ok
    /\ res.username \in DOMAIN users
    /\ res.count = users[res.username].quota_limit
    /\ users[res.username].quota_used = res.count
    /\ users[res.username].last_reset_date = 1
    /\ \E i \in DOMAIN usage : /\ usage[i].username = res.username
                                /\ usage[i].tokens_used > res.count

\* C18: check_quota(username) returns true if and only if the user exists and
\* quota_used < quota_limit, in every reachable state (including states where
\* update_quota pushed quota_used above quota_limit), and it changes no state.
C18_CheckQuotaIffBelowLimit ==
    [][IsCall("check_quota") =>
          /\ res'.ok <=> /\ res'.username \in DOMAIN users
                         /\ users[res'.username].quota_used
                              < users[res'.username].quota_limit
          /\ UNCHANGED <<users, usage, now, conns, codeVars>>]_vars

\* check_quota answered false for a user charged beyond the limit
C18_Witness ==
    /\ res.op = "check_quota"
    /\ ~ res.ok
    /\ res.username \in DOMAIN users
    /\ users[res.username].quota_used > users[res.username].quota_limit

\* C19: every manager call releases its storage connection on every exit
\* path: after any public operation returns or raises, including when a
\* storage statement fails, no connection opened by that call remains open.
C19_NoConnectionLeftOpen == conns = 0

\* C20: the email issuer and the SMS issuer are independent on a shared
\* store: whichever of them created the table, send_code for an identity with
\* no row and a working channel succeeds.
C20_IssuersIndependent ==
    \A id \in Identities, c \in Codes :
        id \notin DOMAIN codes => send_result(codes, id, c, "ok", now).ok

----------------------------------------------------------------------------
(* Frame of the rejected calls *)

Rejections == {"cooldown", "rate_limit", "expired", "mismatch"}

\* C21: a rejected call never changes the stored verification row: a
\* send_code rejected by the cooldown or the rate limit, and a verify_code
\* rejected for expiry or mismatch, leave code, created_time, attempts and
\* last_attempt_time as they were.
C21_RejectedCallKeepsRow ==
    [][(/\ now' = now
        /\ res'.op \in {"send_code", "verify_code"}
        /\ res'.msg \in Rejections)
       => /\ res'.id \in DOMAIN codes
          /\ DOMAIN codes' = DOMAIN codes
          /\ codes'[res'.id].code = codes[res'.id].code
          /\ codes'[res'.id].created_time = codes[res'.id].created_time
          /\ codes'[res'.id].attempts = codes[res'.id].attempts
          /\ codes'[res'.id].last_attempt_time = codes[res'.id].last_attempt_time]_vars

\* a verify_code found the code expired, a day after it was issued, and the
\* row is still stored with its issue time
C21_Witness ==
    /\ IsVerify(res)
    /\ res.msg = "expired"
    /\ res.id \in DOMAIN codes
    /\ codes[res.id].code = res.code
    /\ Elapsed(now, codes[res.id].created_time) >= WindowTicks

----------------------------------------------------------------------------
(* Atomicity of update_quota *)

RECURSIVE SumTokens(_, _)
\* the tokens_used of the records of log that name username, summed
SumTokens(log, username) ==
    IF log = <<>>
    THEN 0
    ELSE (IF Head(log).username = username THEN Head(log).tokens_used ELSE 0)
             + SumTokens(Tail(log), username)

QuotaUsed(tbl, username) ==
    IF username \in DOMAIN tbl THEN tbl[username].quota_used ELSE 0

\* C22: update_quota is all-or-nothing: the increment of quota_used and the
\* appended usage record are committed together or not at all; if a statement
\* fails neither the balance nor the usage log changes, and on success the
\* tokens logged for the user grow by exactly what update_quota added to the
\* user's quota_used.
C22_UpdateQuotaAllOrNothing ==
    [][IsCall("update_quota") =>
          /\ res'.failed # "none" => UNCHANGED <<users, usage>>
          /\ (usage' # usage) <=> (users' # users)
          /\ SumTokens(usage', res'.username) - SumTokens(usage, res'.username)
                = QuotaUsed(users', res'.username) - QuotaUsed(users, res'.username)]_vars

====
